---------------------------- MODULE Spec2Model ----------------------------
(***************************************************************************)
(* Clause segmentation and rule-based risk scoring of the legal-document   *)
(* analyser (backend/services/segmentation_service.py and                  *)
(* backend/services/risk_service.py), as driven by upload_document in      *)
(* backend/main_full.py.                                                   *)
(*                                                                         *)
(* A text is a sequence of one-character strings.  Regular expressions are *)
(* trees evaluated by a backtracking matcher that yields the candidate end *)
(* positions in the order Python's re module tries them.  Fractions of the *)
(* program (confidences, weights, scores) are exact: a confidence is a     *)
(* number of hundredths, a risk score is a record [num, den].              *)
(***************************************************************************)
EXTENDS Integers, Sequences, FiniteSets, TLC

VARIABLES
    pc,           \* where upload_document, or a direct call of a service, stands
    text,         \* ocr_result['text'], the text handed to the services
    clauses,      \* what segment_clauses returned
    risk_scores,  \* what calculate_risk_scores or _calculate_risks returned
    clause_type,  \* what _classify_clause_type returned
    log,          \* the records logger.error was given, oldest first
    segmentation_service,  \* the attributes of the SegmentationService instance
    risk_service,          \* the attributes of the RiskService instance
    calls         \* the frames of the calls running on executor threads

\* the two instances every request shares
services == <<segmentation_service, risk_service>>

vars == <<pc, text, clauses, risk_scores, clause_type, log, services, calls>>

---------------------------------------------------------------------------
(* Characters and the str methods the services use.                        *)

LowerLetters == <<"a","b","c","d","e","f","g","h","i","j","k","l","m",
                  "n","o","p","q","r","s","t","u","v","w","x","y","z">>

UpperLetters == <<"A","B","C","D","E","F","G","H","I","J","K","L","M",
                  "N","O","P","Q","R","S","T","U","V","W","X","Y","Z">>

Range(f) == {f[i] : i \in DOMAIN f}

Letters == Range(LowerLetters)

Digits == {"0","1","2","3","4","5","6","7","8","9"}

\* \s of re and the characters str.strip() / str.split() remove
Whitespace == {" ", "\t", "\n", "\r", "\f"}

\* \w of re, on the lowered text
WordChars == Letters \cup Range(UpperLetters) \cup Digits \cup {"_"}

\* the characters of the class [.!?]
Terminators == {".", "!", "?"}

Min(a, b) == IF a <= b THEN a ELSE b

Max(a, b) == IF a >= b THEN a ELSE b

\* str.lower(), one character
LowerChar(c) ==
    IF \E i \in DOMAIN UpperLetters : UpperLetters[i] = c
    THEN LowerLetters[CHOOSE i \in DOMAIN UpperLetters : UpperLetters[i] = c]
    ELSE c

\* str.lower()
Lower(s) == [i \in DOMAIN s |-> LowerChar(s[i])]

\* the least and the greatest element of a non-empty set of integers
Least(S) == CHOOSE x \in S : \A y \in S : x <= y

Greatest(S) == CHOOSE x \in S : \A y \in S : x >= y

\* number of leading characters of s, from position i on, that lie in S
RunLen(s, i, S) ==
    LET stops == {j \in i..Len(s) : s[j] \notin S}
    IN  IF stops = {} THEN Max(0, Len(s) + 1 - i) ELSE Least(stops) - i

\* number of trailing whitespace characters of s[1..n]
TrailLen(s, n) ==
    LET stops == {j \in 1..n : s[j] \notin Whitespace}
    IN  IF stops = {} THEN Max(0, n) ELSE n - Greatest(stops)

\* str.strip()
Strip(s) ==
    LET lead == RunLen(s, 1, Whitespace)
    IN  IF lead = Len(s) THEN <<>>
        ELSE SubSeq(s, lead + 1, Len(s) - TrailLen(s, Len(s)))

\* w occurs in s at position i (1-based)
HasAt(s, i, w) ==
    /\ i + Len(w) - 1 <= Len(s)
    /\ \A k \in 1..Len(w) : s[i + k - 1] = w[k]

\* str.find(): the 0-based offset of the first occurrence of w in s, or -1
Find(s, w) ==
    LET hits == {i \in 1..(Len(s) + 1) : HasAt(s, i, w)}
    IN  IF hits = {} THEN -1
        ELSE (CHOOSE i \in hits : \A j \in hits : i <= j) - 1

\* the operator `in' on strings
Contains(s, w) == \E i \in 1..(Len(s) + 1) : HasAt(s, i, w)

\* len(str.split()): the number of maximal runs of non-whitespace characters
WordCount(s) ==
    Cardinality({i \in 1..Len(s) :
        /\ s[i] \notin Whitespace
        /\ (i = 1 \/ s[i - 1] \in Whitespace)})

\* str.endswith(('.', '!', '?'))
EndsWithTerminator(s) == Len(s) > 0 /\ s[Len(s)] \in Terminators

---------------------------------------------------------------------------
(* The matcher.  A pattern is a tuple whose first element names its form:  *)
(*   <<"lit", w>>    the characters of w                                   *)
(*   <<"set", S>>    one character of S                                    *)
(*   <<"plus", S>>   S+, greedy          <<"star", S>>   S*, greedy        *)
(*   <<"opt", p>>    p?, greedy                                            *)
(*   <<"alt", ps>>   p1|p2|...           <<"cat", ps>>   p1 p2 ...         *)
(*   <<"b">>         \b                  <<"bol">>       ^ under MULTILINE *)
(* Ends(p, s, i) is the sequence of positions at which a match of p that   *)
(* starts at position i of s may end, in the order the backtracking        *)
(* matcher of re tries them; its first element is where the match ends.    *)

\* \b at position i: exactly one of s[i-1], s[i] is a word character
IsBoundary(s, i) ==
    LET before == i > 1 /\ s[i - 1] \in WordChars
        after  == i <= Len(s) /\ s[i] \in WordChars
    IN  before # after

\* ^ with re.MULTILINE: the start of the text or just after a newline
IsLineStart(s, i) == i = 1 \/ s[i - 1] = "\n"

RECURSIVE Ends(_, _, _)
RECURSIVE AltEnds(_, _, _, _)
RECURSIVE CatEnds(_, _, _, _)
RECURSIVE CatFrom(_, _, _, _, _)

Ends(p, s, i) ==
    CASE p[1] = "lit"  -> IF HasAt(s, i, p[2]) THEN <<i + Len(p[2])>> ELSE <<>>
      [] p[1] = "set"  -> IF i <= Len(s) /\ s[i] \in p[2] THEN <<i + 1>> ELSE <<>>
      [] p[1] = "plus" -> LET n == RunLen(s, i, p[2])
                          IN  [k \in 1..n |-> i + n + 1 - k]
      [] p[1] = "star" -> LET n == RunLen(s, i, p[2])
                          IN  [k \in 1..(n + 1) |-> i + n + 1 - k]
      [] p[1] = "opt"  -> Ends(p[2], s, i) \o <<i>>
      [] p[1] = "alt"  -> AltEnds(p[2], 1, s, i)
      [] p[1] = "cat"  -> CatEnds(p[2], 1, s, i)
      [] p[1] = "b"    -> IF IsBoundary(s, i) THEN <<i>> ELSE <<>>
      [] p[1] = "bol"  -> IF IsLineStart(s, i) THEN <<i>> ELSE <<>>

\* the alternatives ps[k..], tried left to right
AltEnds(ps, k, s, i) ==
    IF k > Len(ps) THEN <<>>
    ELSE Ends(ps[k], s, i) \o AltEnds(ps, k + 1, s, i)

\* the concatenation ps[k..] from position i
CatEnds(ps, k, s, i) ==
    IF k > Len(ps) THEN <<i>>
    ELSE CatFrom(ps, k, s, Ends(ps[k], s, i), 1)

\* ps[k+1..] continued from each end es[j..] of ps[k], in order
CatFrom(ps, k, s, es, j) ==
    IF j > Len(es) THEN <<>>
    ELSE CatEnds(ps, k + 1, s, es[j]) \o CatFrom(ps, k, s, es, j + 1)

\* Pattern.match(s): the pattern matches at the start of s
Match(p, s) == Ends(p, s, 1) # <<>>

\* Search with re.match in place of re.search
Search_AtStart(p, s) == Ends(p, s, 1) # <<>>

\* re.search(p, s) is not None
Search(p, s) == \E i \in 1..(Len(s) + 1) : Ends(p, s, i) # <<>>

\* len(Pattern.findall(s)): the non-overlapping matches, scanning from i;
\* each match is the leftmost one, and the scan goes on where it ended
RECURSIVE FindAllFrom(_, _, _)
FindAllFrom(p, s, i) ==
    LET starts == {j \in i..(Len(s) + 1) : Ends(p, s, j) # <<>>}
    IN  IF starts = {} THEN 0
        ELSE LET j == Least(starts)
                 e == Ends(p, s, j)[1]
             IN  1 + FindAllFrom(p, s, IF e > j THEN e ELSE j + 1)

FindAllCount(p, s) == FindAllFrom(p, s, 1)

\* pattern builders
Lit(w) == <<"lit", w>>

Alt(ps) == <<"alt", ps>>

Cat(ps) == <<"cat", ps>>

WordB == <<"b">>

Ws1 == <<"plus", Whitespace>>

Ws0 == <<"star", Whitespace>>


\* (?:^|\n), the opening of every clause pattern
LineStart == Alt(<<<<"bol">>, Lit(<<"\n">>)>>)

---------------------------------------------------------------------------
(* The pattern tables of SegmentationService and RiskService.              *)

\* self.clause_patterns, compiled with re.IGNORECASE | re.MULTILINE: the
\* literals are lowered here and the patterns are applied to the lowered sentence

clause_patterns ==
  <<
    Cat(<<LineStart, Ws0, Alt(<<Lit(<<"a","r","t","i","c","l","e">>), Lit(<<"s","e","c","t","i","o","n">>), Lit(<<"c","l","a","u","s","e">>), Lit(<<"p","a","r","a","g","r","a","p","h">>)>>), Ws1, <<"plus", Digits>>, <<"set", {".",")",":"}>>, Ws0>>),
    Cat(<<LineStart, Ws0, <<"plus", Digits>>, <<"set", {".",")"}>>, Ws0>>),
    Cat(<<LineStart, Ws0, <<"set", Letters>>, Lit(<<")">>), Ws0>>),
    Cat(<<LineStart, Ws0, Lit(<<"(">>), <<"set", Letters>>, Lit(<<")">>), Ws0>>),
    Cat(<<LineStart, Ws0, <<"plus", {"i","v","x"}>>, Lit(<<")">>), Ws0>>),
    Cat(<<LineStart, Ws0, Lit(<<"(">>), <<"plus", {"i","v","x"}>>, Lit(<<")">>), Ws0>>),
    Cat(<<LineStart, Ws0, Lit(<<"w","h","e","r","e","a","s">>), Ws1>>),
    Cat(<<LineStart, Ws0, Lit(<<"n","o","w">>), Ws1, Lit(<<"t","h","e","r","e","f","o","r","e">>), Ws1>>),
    Cat(<<LineStart, Ws0, Lit(<<"i","n">>), Ws1, Lit(<<"w","i","t","n","e","s","s">>), Ws1, Lit(<<"w","h","e","r","e","o","f">>), Ws1>>),
    Cat(<<LineStart, Ws0, Lit(<<"t","h","e","r","e","f","o","r","e">>), Ws1>>),
    Cat(<<LineStart, Ws0, Lit(<<"f","u","r","t","h","e","r","m","o","r","e">>), Ws1>>),
    Cat(<<LineStart, Ws0, Lit(<<"m","o","r","e","o","v","e","r">>), Ws1>>),
    Cat(<<LineStart, Ws0, Lit(<<"h","o","w","e","v","e","r">>), Ws1>>),
    Cat(<<LineStart, Ws0, Lit(<<"n","o","t","w","i","t","h","s","t","a","n","d","i","n","g">>), Ws1>>),
    Cat(<<LineStart, Ws0, Lit(<<"s","u","b","j","e","c","t">>), Ws1, Lit(<<"t","o">>), Ws1>>),
    Cat(<<LineStart, Ws0, Lit(<<"p","r","o","v","i","d","e","d">>), Ws1, Lit(<<"t","h","a","t">>), Ws1>>),
    Cat(<<LineStart, Ws0, Lit(<<"i","n">>), Ws1, Lit(<<"t","h","e">>), Ws1, Lit(<<"e","v","e","n","t">>), Ws1, Lit(<<"t","h","a","t">>), Ws1>>),
    Cat(<<LineStart, Ws0, Lit(<<"i","n">>), Ws1, Lit(<<"c","a","s","e">>), Ws1, Lit(<<"o","f">>), Ws1>>),
    Cat(<<LineStart, Ws0, Lit(<<"i","f">>), Ws1>>),
    Cat(<<LineStart, Ws0, Lit(<<"u","n","l","e","s","s">>), Ws1>>),
    Cat(<<LineStart, Ws0, Lit(<<"e","x","c","e","p","t">>), Ws1>>),
    Cat(<<LineStart, Ws0, Lit(<<"n","o","t","w","i","t","h","s","t","a","n","d","i","n","g">>), Ws1>>)
  >>

\* type_patterns of _classify_clause_type, in the order of the dict

type_patterns ==
  <<
    [type |-> "definition", patterns |-> <<
        Cat(<<WordB, Alt(<<Cat(<<Lit(<<"m","e","a","n">>), <<"opt", Lit(<<"s">>)>>>>), Lit(<<"s","h","a","l","l"," ","m","e","a","n">>), Lit(<<"r","e","f","e","r","s"," ","t","o">>), Lit(<<"i","s"," ","d","e","f","i","n","e","d"," ","a","s">>)>>), WordB>>),
        Cat(<<WordB, Alt(<<Cat(<<Lit(<<"f","o","r"," ","t","h","e"," ","p","u","r","p","o","s","e">>), <<"opt", Lit(<<"s">>)>>, Lit(<<" ","o","f">>)>>), Lit(<<"i","n"," ","t","h","i","s"," ","a","g","r","e","e","m","e","n","t">>)>>), WordB>>)>>],
    [type |-> "obligation", patterns |-> <<
        Cat(<<WordB, Alt(<<Lit(<<"s","h","a","l","l">>), Lit(<<"m","u","s","t">>), Lit(<<"w","i","l","l">>), Lit(<<"a","g","r","e","e"," ","t","o">>), Lit(<<"u","n","d","e","r","t","a","k","e"," ","t","o">>)>>), WordB>>),
        Cat(<<WordB, Alt(<<Lit(<<"r","e","s","p","o","n","s","i","b","l","e"," ","f","o","r">>), Lit(<<"l","i","a","b","l","e"," ","f","o","r">>), Lit(<<"b","o","u","n","d"," ","t","o">>)>>), WordB>>)>>],
    [type |-> "prohibition", patterns |-> <<
        Cat(<<WordB, Alt(<<Lit(<<"s","h","a","l","l"," ","n","o","t">>), Lit(<<"m","u","s","t"," ","n","o","t">>), Lit(<<"w","i","l","l"," ","n","o","t">>), Lit(<<"c","a","n","n","o","t">>), Lit(<<"m","a","y"," ","n","o","t">>)>>), WordB>>),
        Cat(<<WordB, Alt(<<Lit(<<"p","r","o","h","i","b","i","t","e","d">>), Lit(<<"f","o","r","b","i","d","d","e","n">>), Lit(<<"r","e","s","t","r","i","c","t","e","d">>)>>), WordB>>)>>],
    [type |-> "condition", patterns |-> <<
        Cat(<<WordB, Alt(<<Lit(<<"i","f">>), Lit(<<"u","n","l","e","s","s">>), Lit(<<"p","r","o","v","i","d","e","d"," ","t","h","a","t">>), Lit(<<"s","u","b","j","e","c","t"," ","t","o">>)>>), WordB>>),
        Cat(<<WordB, Alt(<<Lit(<<"i","n"," ","t","h","e"," ","e","v","e","n","t"," ","t","h","a","t">>), Lit(<<"i","n"," ","c","a","s","e"," ","o","f">>)>>), WordB>>)>>],
    [type |-> "termination", patterns |-> <<
        Cat(<<WordB, Alt(<<Lit(<<"t","e","r","m","i","n","a","t","e">>), Lit(<<"e","n","d">>), Lit(<<"e","x","p","i","r","e">>), Lit(<<"c","e","a","s","e">>)>>), WordB>>),
        Cat(<<WordB, Alt(<<Lit(<<"b","r","e","a","c","h">>), Lit(<<"d","e","f","a","u","l","t">>), Lit(<<"v","i","o","l","a","t","i","o","n">>)>>), WordB>>)>>],
    [type |-> "liability", patterns |-> <<
        Cat(<<WordB, Alt(<<Lit(<<"l","i","a","b","i","l","i","t","y">>), Lit(<<"d","a","m","a","g","e","s">>), Lit(<<"i","n","d","e","m","n","i","f","y">>), Lit(<<"h","o","l","d"," ","h","a","r","m","l","e","s","s">>)>>), WordB>>),
        Cat(<<WordB, Alt(<<Lit(<<"r","e","s","p","o","n","s","i","b","l","e">>), Lit(<<"a","c","c","o","u","n","t","a","b","l","e">>), Lit(<<"l","i","a","b","l","e">>)>>), WordB>>)>>],
    [type |-> "payment", patterns |-> <<
        Cat(<<WordB, Alt(<<Lit(<<"p","a","y","m","e","n","t">>), Lit(<<"f","e","e">>), Lit(<<"c","o","s","t">>), Lit(<<"e","x","p","e","n","s","e">>), Lit(<<"c","h","a","r","g","e">>)>>), WordB>>),
        Cat(<<WordB, Alt(<<Lit(<<"d","u","e">>), Lit(<<"p","a","y","a","b","l","e">>), Lit(<<"r","e","m","i","t">>), Lit(<<"t","r","a","n","s","f","e","r">>)>>), WordB>>)>>],
    [type |-> "confidentiality", patterns |-> <<
        Cat(<<WordB, Alt(<<Lit(<<"c","o","n","f","i","d","e","n","t","i","a","l">>), Lit(<<"p","r","o","p","r","i","e","t","a","r","y">>), Lit(<<"s","e","c","r","e","t">>), Lit(<<"p","r","i","v","a","t","e">>)>>), WordB>>),
        Cat(<<WordB, Alt(<<Lit(<<"d","i","s","c","l","o","s","e">>), Lit(<<"r","e","v","e","a","l">>), Lit(<<"s","h","a","r","e">>), Lit(<<"d","i","v","u","l","g","e">>)>>), WordB>>)>>]
  >>

\* legal_keywords of _calculate_confidence

legal_keywords ==
  <<
    <<"s","h","a","l","l">>,
    <<"m","u","s","t">>,
    <<"w","i","l","l">>,
    <<"a","g","r","e","e">>,
    <<"p","a","r","t","y">>,
    <<"c","o","n","t","r","a","c","t">>,
    <<"a","g","r","e","e","m","e","n","t">>,
    <<"l","i","a","b","i","l","i","t","y">>,
    <<"d","a","m","a","g","e","s">>,
    <<"b","r","e","a","c","h">>,
    <<"t","e","r","m","i","n","a","t","e">>,
    <<"c","o","n","f","i","d","e","n","t","i","a","l">>,
    <<"p","a","y","m","e","n","t">>,
    <<"f","e","e">>,
    <<"o","b","l","i","g","a","t","i","o","n">>,
    <<"r","i","g","h","t">>,
    <<"d","u","t","y">>,
    <<"r","e","s","p","o","n","s","i","b","i","l","i","t","y">>
  >>

\* self.risk_patterns, in the order of the dict; weight in tenths

risk_patterns ==
  <<
    [level |-> "high", weight |-> 8, patterns |-> <<
        Cat(<<WordB, Alt(<<Lit(<<"u","n","l","i","m","i","t","e","d">>), Lit(<<"u","n","r","e","s","t","r","i","c","t","e","d">>), Lit(<<"a","b","s","o","l","u","t","e">>)>>), Ws1, Alt(<<Lit(<<"l","i","a","b","i","l","i","t","y">>), Lit(<<"r","e","s","p","o","n","s","i","b","i","l","i","t","y">>)>>), WordB>>),
        Cat(<<WordB, Alt(<<Lit(<<"i","n","d","e","m","n","i","f","y">>), Lit(<<"h","o","l","d"," ","h","a","r","m","l","e","s","s">>)>>), Ws1, Alt(<<Lit(<<"a","g","a","i","n","s","t">>), Lit(<<"f","o","r">>)>>), Ws1, Alt(<<Lit(<<"a","l","l">>), Lit(<<"a","n","y">>), Lit(<<"e","v","e","r","y">>)>>), WordB>>),
        Cat(<<WordB, Alt(<<Cat(<<Lit(<<"w","i","t","h","o","u","t">>), Ws1, Lit(<<"l","i","m","i","t","a","t","i","o","n">>)>>), Cat(<<Lit(<<"w","i","t","h","o","u","t">>), Ws1, Lit(<<"r","e","s","t","r","i","c","t","i","o","n">>)>>)>>), WordB>>),
        Cat(<<WordB, Alt(<<Lit(<<"c","o","n","s","e","q","u","e","n","t","i","a","l">>), Lit(<<"p","u","n","i","t","i","v","e">>), Lit(<<"s","p","e","c","i","a","l">>)>>), Ws1, Lit(<<"d","a","m","a","g","e","s">>), WordB>>),
        Cat(<<WordB, Alt(<<Lit(<<"a","u","t","o","m","a","t","i","c">>), Lit(<<"i","m","m","e","d","i","a","t","e">>)>>), Ws1, Alt(<<Lit(<<"t","e","r","m","i","n","a","t","i","o","n">>), Lit(<<"c","a","n","c","e","l","l","a","t","i","o","n">>)>>), WordB>>),
        Cat(<<WordB, Alt(<<Lit(<<"p","e","n","a","l","t","y">>), Lit(<<"f","i","n","e">>)>>), Ws1, Alt(<<Lit(<<"o","f">>), Cat(<<Lit(<<"i","n">>), Ws1, Lit(<<"t","h","e">>), Ws1, Lit(<<"a","m","o","u","n","t">>), Ws1, Lit(<<"o","f">>)>>)>>), Ws1, <<"opt", Lit(<<"$">>)>>, <<"plus", Digits>>>>),
        Cat(<<WordB, Alt(<<Lit(<<"b","r","e","a","c","h">>), Lit(<<"v","i","o","l","a","t","i","o","n">>)>>), Ws1, Alt(<<Lit(<<"s","h","a","l","l">>), Lit(<<"w","i","l","l">>)>>), Ws1, Alt(<<Cat(<<Lit(<<"r","e","s","u","l","t">>), Ws1, Lit(<<"i","n">>)>>), Lit(<<"c","o","n","s","t","i","t","u","t","e">>)>>), WordB>>),
        Cat(<<WordB, Alt(<<Lit(<<"i","r","r","e","v","o","c","a","b","l","e">>), Lit(<<"p","e","r","m","a","n","e","n","t">>), Lit(<<"f","i","n","a","l">>)>>), WordB>>),
        Cat(<<WordB, Alt(<<Lit(<<"w","a","i","v","e">>), Lit(<<"w","a","i","v","e","r">>)>>), Ws1, Alt(<<Lit(<<"a","l","l">>), Lit(<<"a","n","y">>)>>), Ws1, Alt(<<Cat(<<Lit(<<"r","i","g","h","t">>), <<"opt", Lit(<<"s">>)>>>>), Cat(<<Lit(<<"c","l","a","i","m">>), <<"opt", Lit(<<"s">>)>>>>), Cat(<<Lit(<<"d","e","f","e","n","s","e">>), <<"opt", Lit(<<"s">>)>>>>)>>), WordB>>),
        Cat(<<WordB, Alt(<<Lit(<<"e","x","c","l","u","s","i","v","e">>), Lit(<<"s","o","l","e">>)>>), Ws1, Alt(<<Lit(<<"r","e","m","e","d","y">>), Lit(<<"r","e","c","o","u","r","s","e">>)>>), WordB>>)>>],
    [level |-> "medium", weight |-> 5, patterns |-> <<
        Cat(<<WordB, Alt(<<Lit(<<"r","e","a","s","o","n","a","b","l","e">>), Lit(<<"l","i","m","i","t","e","d">>)>>), Ws1, Alt(<<Lit(<<"l","i","a","b","i","l","i","t","y">>), Lit(<<"r","e","s","p","o","n","s","i","b","i","l","i","t","y">>)>>), WordB>>),
        Cat(<<WordB, Alt(<<Lit(<<"t","e","r","m","i","n","a","t","e">>), Lit(<<"e","n","d">>), Lit(<<"c","e","a","s","e">>)>>), Ws1, Alt(<<Lit(<<"u","p","o","n">>), Cat(<<Lit(<<"i","n">>), Ws1, Lit(<<"c","a","s","e">>), Ws1, Lit(<<"o","f">>)>>)>>), WordB>>),
        Cat(<<WordB, Alt(<<Lit(<<"b","r","e","a","c","h">>), Lit(<<"d","e","f","a","u","l","t">>), Lit(<<"v","i","o","l","a","t","i","o","n">>)>>), Ws1, Alt(<<Lit(<<"o","f">>), Lit(<<"u","n","d","e","r">>)>>), WordB>>),
        Cat(<<WordB, Alt(<<Lit(<<"n","o","t","i","c","e">>), Lit(<<"n","o","t","i","f","i","c","a","t","i","o","n">>)>>), Ws1, Alt(<<Lit(<<"o","f">>), Lit(<<"r","e","g","a","r","d","i","n","g">>)>>), WordB>>),
        Cat(<<WordB, Alt(<<Lit(<<"r","e","m","e","d","y">>), Lit(<<"r","e","c","o","u","r","s","e">>)>>), Ws1, Alt(<<Lit(<<"f","o","r">>), Lit(<<"a","g","a","i","n","s","t">>)>>), WordB>>),
        Cat(<<WordB, Alt(<<Cat(<<Lit(<<"d","a","m","a","g","e">>), <<"opt", Lit(<<"s">>)>>>>), Cat(<<Lit(<<"l","o","s","s","e">>), <<"opt", Lit(<<"s">>)>>>>)>>), Ws1, Alt(<<Cat(<<Lit(<<"a","r","i","s","i","n","g">>), Ws1, Lit(<<"f","r","o","m">>)>>), Cat(<<Lit(<<"r","e","s","u","l","t","i","n","g">>), Ws1, Lit(<<"f","r","o","m">>)>>)>>), WordB>>),
        Cat(<<WordB, Alt(<<Lit(<<"c","o","n","f","i","d","e","n","t","i","a","l">>), Lit(<<"p","r","o","p","r","i","e","t","a","r","y">>)>>), Ws1, Alt(<<Lit(<<"i","n","f","o","r","m","a","t","i","o","n">>), Lit(<<"d","a","t","a">>)>>), WordB>>),
        Cat(<<WordB, Alt(<<Lit(<<"p","a","y","m","e","n","t">>), Lit(<<"f","e","e">>)>>), Ws1, Alt(<<Lit(<<"d","u","e">>), Lit(<<"p","a","y","a","b","l","e">>)>>), Ws1, Alt(<<Lit(<<"w","i","t","h","i","n">>), Lit(<<"b","y">>)>>), WordB>>),
        Cat(<<WordB, Alt(<<Cat(<<Lit(<<"s","u","b","j","e","c","t">>), Ws1, Lit(<<"t","o">>)>>), Cat(<<Lit(<<"c","o","n","d","i","t","i","o","n","e","d">>), Ws1, Lit(<<"u","p","o","n">>)>>)>>), WordB>>),
        Cat(<<WordB, Alt(<<Cat(<<Lit(<<"p","r","o","v","i","d","e","d">>), Ws1, Lit(<<"t","h","a","t">>)>>), Cat(<<Lit(<<"a","s">>), Ws1, Lit(<<"l","o","n","g">>), Ws1, Lit(<<"a","s">>)>>)>>), WordB>>)>>],
    [level |-> "low", weight |-> 2, patterns |-> <<
        Cat(<<WordB, Alt(<<Lit(<<"m","a","y">>), Lit(<<"m","i","g","h","t">>), Lit(<<"c","o","u","l","d">>)>>), Ws1, Alt(<<Lit(<<"b","e">>), Lit(<<"h","a","v","e">>), Lit(<<"i","n","c","l","u","d","e">>)>>), WordB>>),
        Cat(<<WordB, Alt(<<Lit(<<"r","e","a","s","o","n","a","b","l","e">>), Cat(<<Lit(<<"g","o","o","d">>), Ws1, Lit(<<"f","a","i","t","h">>)>>)>>), Ws1, Alt(<<Cat(<<Lit(<<"e","f","f","o","r","t">>), <<"opt", Lit(<<"s">>)>>>>), Cat(<<Lit(<<"a","t","t","e","m","p","t">>), <<"opt", Lit(<<"s">>)>>>>)>>), WordB>>),
        Cat(<<WordB, Alt(<<Cat(<<Lit(<<"b","e","s","t">>), Ws1, Lit(<<"e","f","f","o","r","t">>), <<"opt", Lit(<<"s">>)>>>>), Cat(<<Lit(<<"r","e","a","s","o","n","a","b","l","e">>), Ws1, Lit(<<"c","a","r","e">>)>>)>>), WordB>>),
        Cat(<<WordB, Alt(<<Cat(<<Lit(<<"s","u","b","j","e","c","t">>), Ws1, Lit(<<"t","o">>), Ws1, Lit(<<"a","v","a","i","l","a","b","i","l","i","t","y">>)>>), Cat(<<Lit(<<"a","s">>), Ws1, Lit(<<"a","v","a","i","l","a","b","l","e">>)>>)>>), WordB>>),
        Cat(<<WordB, Alt(<<Cat(<<Lit(<<"a","t">>), Ws1, Lit(<<"t","h","e">>), Ws1, Lit(<<"d","i","s","c","r","e","t","i","o","n">>), Ws1, Lit(<<"o","f">>)>>), Cat(<<Lit(<<"i","n">>), Ws1, Lit(<<"t","h","e">>), Ws1, Lit(<<"o","p","i","n","i","o","n">>), Ws1, Lit(<<"o","f">>)>>)>>), WordB>>),
        Cat(<<WordB, Alt(<<Cat(<<Lit(<<"u","n","l","e","s","s">>), Ws1, Lit(<<"o","t","h","e","r","w","i","s","e">>), Ws1, Lit(<<"s","p","e","c","i","f","i","e","d">>)>>), Cat(<<Lit(<<"e","x","c","e","p","t">>), Ws1, Lit(<<"a","s">>), Ws1, Lit(<<"n","o","t","e","d">>)>>)>>), WordB>>),
        Cat(<<WordB, Alt(<<Lit(<<"g","e","n","e","r","a","l","l","y">>), Lit(<<"t","y","p","i","c","a","l","l","y">>), Lit(<<"u","s","u","a","l","l","y">>)>>), WordB>>),
        Cat(<<WordB, Alt(<<Lit(<<"a","p","p","r","o","x","i","m","a","t","e","l","y">>), Lit(<<"a","b","o","u","t">>), Lit(<<"a","r","o","u","n","d">>)>>), WordB>>),
        Cat(<<WordB, Alt(<<Cat(<<Lit(<<"i","f">>), Ws1, Lit(<<"p","o","s","s","i","b","l","e">>)>>), Cat(<<Lit(<<"w","h","e","n">>), Ws1, Lit(<<"f","e","a","s","i","b","l","e">>)>>)>>), WordB>>),
        Cat(<<WordB, Alt(<<Cat(<<Lit(<<"r","e","a","s","o","n","a","b","l","e">>), Ws1, Lit(<<"t","i","m","e">>)>>), Cat(<<Lit(<<"a","p","p","r","o","p","r","i","a","t","e">>), Ws1, Lit(<<"p","e","r","i","o","d">>)>>)>>), WordB>>)>>]
  >>

\* risk_checks of _identify_risk_factors, in the order of the dict

risk_checks ==
  <<
    [name |-> "Unlimited Liability", pattern |->
        Cat(<<WordB, Alt(<<Lit(<<"u","n","l","i","m","i","t","e","d">>), Lit(<<"u","n","r","e","s","t","r","i","c","t","e","d">>)>>), Ws1, Alt(<<Lit(<<"l","i","a","b","i","l","i","t","y">>), Lit(<<"r","e","s","p","o","n","s","i","b","i","l","i","t","y">>)>>), WordB>>)],
    [name |-> "Automatic Termination", pattern |->
        Cat(<<WordB, Alt(<<Lit(<<"a","u","t","o","m","a","t","i","c">>), Lit(<<"i","m","m","e","d","i","a","t","e">>)>>), Ws1, Alt(<<Lit(<<"t","e","r","m","i","n","a","t","i","o","n">>), Lit(<<"c","a","n","c","e","l","l","a","t","i","o","n">>)>>), WordB>>)],
    [name |-> "Penalty Clauses", pattern |->
        Cat(<<WordB, Alt(<<Lit(<<"p","e","n","a","l","t","y">>), Lit(<<"f","i","n","e">>)>>), Ws1, Alt(<<Lit(<<"o","f">>), Cat(<<Lit(<<"i","n">>), Ws1, Lit(<<"t","h","e">>), Ws1, Lit(<<"a","m","o","u","n","t">>), Ws1, Lit(<<"o","f">>)>>)>>), Ws1, <<"opt", Lit(<<"$">>)>>, <<"plus", Digits>>>>)],
    [name |-> "Indemnification", pattern |->
        Cat(<<WordB, Alt(<<Lit(<<"i","n","d","e","m","n","i","f","y">>), Lit(<<"h","o","l","d"," ","h","a","r","m","l","e","s","s">>)>>), WordB>>)],
    [name |-> "Waiver of Rights", pattern |->
        Cat(<<WordB, Alt(<<Lit(<<"w","a","i","v","e">>), Lit(<<"w","a","i","v","e","r">>)>>), Ws1, Alt(<<Lit(<<"a","l","l">>), Lit(<<"a","n","y">>)>>), Ws1, Alt(<<Cat(<<Lit(<<"r","i","g","h","t">>), <<"opt", Lit(<<"s">>)>>>>), Cat(<<Lit(<<"c","l","a","i","m">>), <<"opt", Lit(<<"s">>)>>>>)>>), WordB>>)],
    [name |-> "Consequential Damages", pattern |->
        Cat(<<WordB, Alt(<<Lit(<<"c","o","n","s","e","q","u","e","n","t","i","a","l">>), Lit(<<"p","u","n","i","t","i","v","e">>), Lit(<<"s","p","e","c","i","a","l">>)>>), Ws1, Lit(<<"d","a","m","a","g","e","s">>), WordB>>)],
    [name |-> "Irrevocable Terms", pattern |->
        Cat(<<WordB, Alt(<<Lit(<<"i","r","r","e","v","o","c","a","b","l","e">>), Lit(<<"p","e","r","m","a","n","e","n","t">>), Lit(<<"f","i","n","a","l">>)>>), WordB>>)],
    [name |-> "Exclusive Remedy", pattern |->
        Cat(<<WordB, Alt(<<Lit(<<"e","x","c","l","u","s","i","v","e">>), Lit(<<"s","o","l","e">>)>>), Ws1, Alt(<<Lit(<<"r","e","m","e","d","y">>), Lit(<<"r","e","c","o","u","r","s","e">>)>>), WordB>>)],
    [name |-> "Confidentiality Breach", pattern |->
        Cat(<<WordB, Alt(<<Lit(<<"c","o","n","f","i","d","e","n","t","i","a","l">>), Lit(<<"p","r","o","p","r","i","e","t","a","r","y">>)>>), Ws1, Alt(<<Lit(<<"i","n","f","o","r","m","a","t","i","o","n">>), Lit(<<"d","a","t","a">>)>>), WordB>>)],
    [name |-> "Payment Default", pattern |->
        Cat(<<WordB, Alt(<<Lit(<<"p","a","y","m","e","n","t">>), Lit(<<"f","e","e">>)>>), Ws1, Alt(<<Lit(<<"d","u","e">>), Lit(<<"p","a","y","a","b","l","e">>)>>), Ws1, Alt(<<Lit(<<"w","i","t","h","i","n">>), Lit(<<"b","y">>)>>), WordB>>)]
  >>

\* negation_words of _calculate_additional_risk_factors

negation_words ==
  <<
    <<"n","o","t">>,
    <<"n","o">>,
    <<"n","e","v","e","r">>,
    <<"n","o","n","e">>,
    <<"n","e","i","t","h","e","r">>,
    <<"n","o","r">>,
    <<"w","i","t","h","o","u","t">>,
    <<"u","n","l","e","s","s">>
  >>

\* uncertainty_words of _calculate_additional_risk_factors

uncertainty_words ==
  <<
    <<"m","a","y">>,
    <<"m","i","g","h","t">>,
    <<"c","o","u","l","d">>,
    <<"p","o","s","s","i","b","l","y">>,
    <<"p","o","t","e","n","t","i","a","l","l","y">>,
    <<"u","n","c","e","r","t","a","i","n">>
  >>

\* time_words of _calculate_additional_risk_factors

time_words ==
  <<
    <<"i","m","m","e","d","i","a","t","e","l","y">>,
    <<"u","r","g","e","n","t">>,
    <<"a","s","a","p">>,
    <<"p","r","o","m","p","t","l","y">>,
    <<"w","i","t","h","o","u","t"," ","d","e","l","a","y">>
  >>

---------------------------------------------------------------------------
(* SegmentationService.                                                    *)

\* re.split(r'[.!?]+', s): the pieces of s between the runs of terminators,
\* from position i on
RECURSIVE ReSplit(_, _)
ReSplit(s, i) ==
    LET stops == {j \in i..Len(s) : s[j] \in Terminators}
    IN  IF stops = {} THEN <<SubSeq(s, i, Len(s))>>
        ELSE LET j == Least(stops)
             IN  <<SubSeq(s, i, j - 1)>>
                 \o ReSplit(s, j + RunLen(s, j, Terminators))

\* [s.strip() for s in pieces if s.strip()]
RECURSIVE StripNonEmpty(_, _)
StripNonEmpty(pieces, k) ==
    IF k > Len(pieces) THEN <<>>
    ELSE LET t == Strip(pieces[k])
         IN  (IF t = <<>> THEN <<>> ELSE <<t>>) \o StripNonEmpty(pieces, k + 1)

\* split_into_sentences without the split: the stripped text is the one
\* sentence
split_into_sentences_Unsplit(t) == StripNonEmpty(<<t>>, 1)

split_into_sentences(t) == StripNonEmpty(ReSplit(t, 1), 1)

\* SegmentationService(): self.compiled_patterns is the list of the compiled
\* clause patterns, each held as the number of the pattern it was compiled
\* from
SegmentationService ==
    [compiled_patterns |-> [n \in DOMAIN clause_patterns |-> n]]

\* any(pattern.match(sentence) for pattern in self.compiled_patterns)
is_clause_start(sentence) ==
    \E k \in DOMAIN segmentation_service.compiled_patterns :
        Match(clause_patterns[segmentation_service.compiled_patterns[k]],
              Lower(sentence))

\* ClassifyFrom without the early return: the last matching type wins
ClassifyFrom_LastMatch(clause_lower, k) ==
    LET hits == {n \in k..Len(type_patterns) :
                    \E j \in DOMAIN type_patterns[n].patterns :
                        Search(type_patterns[n].patterns[j], clause_lower)}
    IN  IF hits = {} THEN "general" ELSE type_patterns[Greatest(hits)].type

\* the first type, in dict order, one of whose patterns is found in the
\* lowered clause; "general" when there is none
RECURSIVE ClassifyFrom(_, _)
ClassifyFrom(clause_lower, k) ==
    IF k > Len(type_patterns) THEN "general"
    ELSE IF \E j \in DOMAIN type_patterns[k].patterns :
                Search(type_patterns[k].patterns[j], clause_lower)
         THEN type_patterns[k].type
         ELSE ClassifyFrom(clause_lower, k + 1)

\* classify_clause_type with the default label of the failure path
classify_clause_type_DefaultUnknown(clause_text) ==
    LET type == ClassifyFrom(Lower(clause_text), 1)
    IN  IF type = "general" THEN "unknown" ELSE type

classify_clause_type(clause_text) == ClassifyFrom(Lower(clause_text), 1)

\* in hundredths
calculate_confidence(clause_text) ==
    LET clause_lower == Lower(clause_text)
        keyword_count == Cardinality({k \in DOMAIN legal_keywords :
                             Contains(clause_lower, legal_keywords[k])})
        byLength == IF Len(clause_text) > 100 THEN 10
                    ELSE IF Len(clause_text) > 50 THEN 5 ELSE 0
        byEnd == IF EndsWithTerminator(clause_text) THEN 10 ELSE 0
    IN  Min(100, 50 + Min(30, keyword_count * 5) + byLength + byEnd)

\* the dict appended to clauses at lines 81-88 and 100-107
MakeClause(clause_id, current_clause, start_index) ==
    [id          |-> clause_id,
     text        |-> Strip(current_clause),
     type        |-> classify_clause_type(current_clause),
     start_index |-> start_index,
     end_index   |-> start_index + Len(current_clause),
     confidence  |-> calculate_confidence(current_clause)]

\* the locals of _segment_text before the loop
ScanInit ==
    [clauses |-> <<>>, current_clause |-> <<>>, clause_id |-> 1, start_index |-> 0]

\* Flush without `clause_id += 1'
Flush_SameId(st) ==
    IF Strip(st.current_clause) # <<>>
    THEN [st EXCEPT !.clauses = Append(st.clauses,
                        MakeClause(st.clause_id, st.current_clause, st.start_index))]
    ELSE st

\* `if current_clause.strip(): clauses.append(...)', with the id the next
\* clause gets
Flush(st) ==
    IF Strip(st.current_clause) # <<>>
    THEN [st EXCEPT !.clauses = Append(st.clauses,
                        MakeClause(st.clause_id, st.current_clause, st.start_index)),
                    !.clause_id = st.clause_id + 1]
    ELSE st

\* ScanStep that starts a new clause only while the buffer holds something,
\* and appends the sentence otherwise
ScanStep_AppendWhenEmpty(t, sentence, st) ==
    IF is_clause_start(sentence) /\ st.current_clause # <<>>
    THEN [Flush(st) EXCEPT !.current_clause = sentence,
                           !.start_index = Find(t, sentence)]
    ELSE [st EXCEPT !.current_clause = st.current_clause \o <<" ">> \o sentence]

\* one iteration of the loop over the sentences
ScanStep(t, sentence, st) ==
    IF is_clause_start(sentence)
    THEN [Flush(st) EXCEPT !.current_clause = sentence,
                           !.start_index = Find(t, sentence)]
    ELSE [st EXCEPT !.current_clause = st.current_clause \o <<" ">> \o sentence]

\* the loop over sentences[i..]
RECURSIVE Scan(_, _, _, _)
Scan(t, sentences, i, st) ==
    IF i > Len(sentences) THEN st
    ELSE Scan(t, sentences, i + 1, ScanStep(t, sentences[i], st))

\* the clause that stands for the whole input
WholeClause(t, type, confidence) ==
    [id |-> 1, text |-> t, type |-> type, start_index |-> 0,
     end_index |-> Len(t), confidence |-> confidence]

\* segment_text without `if not clauses: clauses.append(...)'
segment_text_NoFallback(t) ==
    Flush(Scan(t, split_into_sentences(t), 1, ScanInit)).clauses

\* segment_text that returns the clause of lines 110-118 whatever the scan
\* found
segment_text_FallbackOnly(t) == <<WholeClause(t, "general", 50)>>

segment_text(t) ==
    LET found == Flush(Scan(t, split_into_sentences(t), 1, ScanInit)).clauses
    IN  IF found = <<>> THEN <<WholeClause(t, "general", 50)>> ELSE found

\* segment_clauses whose except branch returns the clause of lines 110-118
segment_clauses_GeneralOnFailure(t, fault) ==
    IF Strip(t) = <<>> THEN <<>>
    ELSE IF fault THEN <<WholeClause(t, "general", 50)>>
    ELSE segment_text(t)

\* segment_clauses without `if not text.strip(): return []'
segment_clauses_NoBlankGuard(t, fault) ==
    IF fault THEN <<WholeClause(t, "unknown", 10)>> ELSE segment_text(t)

\* fault: run_in_executor or _segment_text raises
segment_clauses(t, fault) ==
    IF Strip(t) = <<>> THEN <<>>
    ELSE IF fault THEN <<WholeClause(t, "unknown", 10)>>
    ELSE segment_text(t)

---------------------------------------------------------------------------
(* RiskService.  A risk score is the exact fraction num/den, den > 0.      *)

Frac(n, d) == [num |-> n, den |-> d]

\* a >= n/d, for a fraction a and integers n, d > 0
FracGE(a, n, d) == a.num * d >= n * a.den

\* min(1.0, a)
MinOne(a) == IF a.num > a.den THEN Frac(1, 1) ELSE a

\* sum(len(pattern.findall(clause_lower)) for pattern in patterns[j..])
RECURSIVE CountMatches(_, _, _)
CountMatches(patterns, j, clause_lower) ==
    IF j > Len(patterns) THEN 0
    ELSE FindAllCount(patterns[j], clause_lower)
         + CountMatches(patterns, j + 1, clause_lower)

\* sum(1 for word in words if word in clause_lower)
CountPresent(words, clause_lower) ==
    Cardinality({k \in DOMAIN words : Contains(clause_lower, words[k])})

\* calculate_additional_risk_factors without the caps min(0.2, ...),
\* min(0.15, ...) and min(0.1, ...)
calculate_additional_risk_factors_Uncapped(clause_text) ==
    LET clause_lower == Lower(clause_text)
        byLength == IF Len(clause_text) > 200 THEN 10
                    ELSE IF Len(clause_text) > 100 THEN 5 ELSE 0
        negation_count == CountPresent(negation_words, clause_lower)
        uncertainty_count == CountPresent(uncertainty_words, clause_lower)
        time_count == CountPresent(time_words, clause_lower)
    IN  byLength + negation_count * 5 + uncertainty_count * 3 + time_count * 5

\* in hundredths
calculate_additional_risk_factors(clause_text) ==
    LET clause_lower == Lower(clause_text)
        byLength == IF Len(clause_text) > 200 THEN 10
                    ELSE IF Len(clause_text) > 100 THEN 5 ELSE 0
        negation_count == CountPresent(negation_words, clause_lower)
        uncertainty_count == CountPresent(uncertainty_words, clause_lower)
        time_count == CountPresent(time_words, clause_lower)
    IN  byLength + Min(20, negation_count * 5) + Min(15, uncertainty_count * 3)
        + Min(10, time_count * 5)

\* RiskService(): self.risk_patterns gives every level its weight, and
\* self.compiled_patterns its compiled patterns, each held as the number of
\* the pattern of the level it was compiled from
RiskService ==
    [risk_patterns     |-> [k \in DOMAIN risk_patterns |->
                               [level  |-> risk_patterns[k].level,
                                weight |-> risk_patterns[k].weight]],
     compiled_patterns |-> [k \in DOMAIN risk_patterns |->
                               [n \in DOMAIN risk_patterns[k].patterns |-> n]]]

\* The loop over the risk levels k.., for a clause of `words' words:
\* acc.total_score counts units of 1/(100 * words), acc.total_weight tenths.
RECURSIVE RiskLoop(_, _, _, _)
RiskLoop(k, clause_lower, words, acc) ==
    IF k > Len(risk_service.risk_patterns) THEN acc
    ELSE LET weight == risk_service.risk_patterns[k].weight
             compiled == risk_service.compiled_patterns[k]
             patterns == [n \in DOMAIN compiled |->
                             risk_patterns[k].patterns[compiled[n]]]
             matches == CountMatches(patterns, 1, clause_lower)
         IN  RiskLoop(k + 1, clause_lower, words,
                 IF matches > 0
                 THEN [total_score  |-> acc.total_score + matches * weight * 10,
                       total_weight |-> acc.total_weight + weight]
                 ELSE acc)

\* Normalize without min(1.0, ...)
Normalize_Unclamped(total_score, total_weight, words) ==
    Frac(total_score, 10 * words * total_weight)

\* the quotient total_score / total_weight, total_score counting units of
\* 1/(100 * words) and total_weight tenths
Normalize(total_score, total_weight, words) ==
    MinOne(Frac(total_score, 10 * words * total_weight))

\* analyze_clause_risk scoring 0.0 where no weighted pattern matched
analyze_clause_risk_ZeroWithoutMatch(clause_text) ==
    IF Strip(clause_text) = <<>> THEN Frac(0, 1)
    ELSE LET words == Max(1, WordCount(clause_text))
             acc == RiskLoop(1, Lower(clause_text), words,
                             [total_score |-> 0, total_weight |-> 0])
             additional_risk == calculate_additional_risk_factors(clause_text)
             total_score == acc.total_score + additional_risk * words
         IN  IF acc.total_weight > 0
             THEN Normalize(total_score, acc.total_weight, words)
             ELSE Frac(0, 1)

analyze_clause_risk(clause_text) ==
    IF Strip(clause_text) = <<>> THEN Frac(0, 1)
    ELSE LET words == Max(1, WordCount(clause_text))
             acc == RiskLoop(1, Lower(clause_text), words,
                             [total_score |-> 0, total_weight |-> 0])
             additional_risk == calculate_additional_risk_factors(clause_text)
             total_score == acc.total_score + additional_risk * words
         IN  IF acc.total_weight > 0
             THEN Normalize(total_score, acc.total_weight, words)
             ELSE Frac(additional_risk, 100)

\* the names of the checks k.. whose pattern is found, in dict order
RECURSIVE FactorsFrom(_, _)
FactorsFrom(clause_lower, k) ==
    IF k > Len(risk_checks) THEN <<>>
    ELSE (IF Search(risk_checks[k].pattern, clause_lower)
          THEN <<risk_checks[k].name>> ELSE <<>>)
         \o FactorsFrom(clause_lower, k + 1)

identify_risk_factors(clause_text) == FactorsFrom(Lower(clause_text), 1)

\* ", ".join(names[k..])
RECURSIVE Join(_, _)
Join(names, k) ==
    IF k > Len(names) THEN ""
    ELSE IF k = Len(names) THEN names[k]
    ELSE names[k] \o ", " \o Join(names, k + 1)

generate_risk_explanation(risk_level, risk_factors) ==
    LET base_explanation ==
            IF risk_level = "high"
            THEN "This clause contains high-risk elements that could significantly impact your rights or obligations."
            ELSE IF risk_level = "medium"
            THEN "This clause contains moderate-risk elements that should be carefully reviewed."
            ELSE "This clause appears to have low-risk elements, but should still be reviewed."
    IN  IF risk_factors # <<>>
        THEN base_explanation \o " Identified risk factors: "
             \o Join(risk_factors, 1) \o "."
        ELSE base_explanation

\* the if / elif / else on the score, lines 98-106 and 247-258
LevelOf(score) ==
    IF FracGE(score, 7, 10) THEN "high"
    ELSE IF FracGE(score, 4, 10) THEN "medium"
    ELSE "low"

ColorOf(risk_level) ==
    IF risk_level = "high" THEN "#ff4444"
    ELSE IF risk_level = "medium" THEN "#ffaa00"
    ELSE "#44aa44"

\* AssessClause with the default of clause.get('id', 0) in place of the id
AssessClause_DefaultId(clause) ==
    LET risk_score == analyze_clause_risk(clause.text)
        risk_level == LevelOf(risk_score)
        risk_factors == identify_risk_factors(clause.text)
    IN  [clause_id    |-> 0,
         risk_score   |-> risk_score,
         risk_level   |-> risk_level,
         color        |-> ColorOf(risk_level),
         risk_factors |-> risk_factors,
         explanation  |-> generate_risk_explanation(risk_level, risk_factors)]

\* one iteration of the loop of _calculate_risks
AssessClause(clause) ==
    LET risk_score == analyze_clause_risk(clause.text)
        risk_level == LevelOf(risk_score)
        risk_factors == identify_risk_factors(clause.text)
    IN  [clause_id    |-> clause.id,
         risk_score   |-> risk_score,
         risk_level   |-> risk_level,
         color        |-> ColorOf(risk_level),
         risk_factors |-> risk_factors,
         explanation  |-> generate_risk_explanation(risk_level, risk_factors)]

calculate_risks(cs) == [k \in DOMAIN cs |-> AssessClause(cs[k])]

\* round(x, 2) of a number of thousandths, in hundredths: the nearest
\* hundredth (a tie, which no value of Draws is, goes to the even one)
Round2(x) ==
    LET q == x \div 10
        r == x % 10
    IN  IF r > 5 \/ (r = 5 /\ q % 2 = 1) THEN q + 1 ELSE q

\* the canned factors of the branches at lines 247-258
MockFactors(risk_level) ==
    IF risk_level = "high" THEN <<"Unlimited Liability", "Automatic Termination">>
    ELSE IF risk_level = "medium" THEN <<"Payment Default", "Confidentiality Breach">>
    ELSE <<"Standard Terms">>

\* MockClause that reports the factors found in the clause's text
MockClause_FactorsFromText(clause, draw) ==
    LET risk_level == LevelOf(Frac(draw, 1000))
        factors == identify_risk_factors(clause.text)
    IN  [clause_id    |-> clause.id,
         risk_score   |-> Frac(Round2(draw), 100),
         risk_level   |-> risk_level,
         color        |-> ColorOf(risk_level),
         risk_factors |-> factors,
         explanation  |-> generate_risk_explanation(risk_level, factors)]

\* one iteration of the loop of _generate_mock_risk_scores; draw is the value
\* of random.uniform(0.1, 0.9), in thousandths
MockClause(clause, draw) ==
    LET risk_level == LevelOf(Frac(draw, 1000))
        factors == MockFactors(risk_level)
    IN  [clause_id    |-> clause.id,
         risk_score   |-> Frac(Round2(draw), 100),
         risk_level   |-> risk_level,
         color        |-> ColorOf(risk_level),
         risk_factors |-> factors,
         explanation  |-> generate_risk_explanation(risk_level, factors)]

generate_mock_risk_scores(cs, draws) ==
    [k \in DOMAIN cs |-> MockClause(cs[k], draws[k])]

---------------------------------------------------------------------------
(* The documents the model is run on, and upload_document.                 *)

\* the longest document, in tokens
MaxTokens == 4

\* the longest document of the risk runs, in tokens
MaxRiskTokens == 3

\* What documents are made of: an enumerated clause opener, one closed by a
\* terminator, a plain letter, a blank and a sentence terminator.
Tokens ==
    << <<"a", ")">>, <<"b", ")", ".">>, <<"a">>, <<" ">>, <<".">> >>

\* What the documents of the risk runs are made of: phrases of the risk
\* tables, a clause opener and a sentence terminator.
RiskTokens ==
    << <<"m","a","y"," ","b","e"," ">>,
       <<"n","e","v","e","r"," ">>,
       <<"n","o","t"," ">>,
       <<"f","i","n","a","l"," ">>,
       <<"i","n","d","e","m","n","i","f","y"," ">>,
       <<".", " ", "i", "f", " ">> >>

\* the longest document of the classification runs, in tokens
MaxTypeTokens == 2

\* What the documents of the classification runs are made of: one keyword of
\* each type group, and a word of none.
TypeTokens ==
    << <<"m","e","a","n","s"," ">>,
       <<"s","h","a","l","l"," ">>,
       <<"m","a","y"," ","n","o","t"," ">>,
       <<"u","n","l","e","s","s"," ">>,
       <<"e","x","p","i","r","e"," ">>,
       <<"d","a","m","a","g","e","s"," ">>,
       <<"f","e","e"," ">>,
       <<"s","e","c","r","e","t"," ">>,
       <<"t","h","e"," ">> >>

\* the concatenation of the tokens toks[ix[k]], k = from..Len(ix)
RECURSIVE Flatten(_, _, _)
Flatten(toks, ix, from) ==
    IF from > Len(ix) THEN <<>>
    ELSE toks[ix[from]] \o Flatten(toks, ix, from + 1)

\* every concatenation of at most max tokens
DocumentsOf(toks, max) ==
    {Flatten(toks, ix, 1) : ix \in UNION {[1..n -> DOMAIN toks] : n \in 0..max}}

\* The example texts of the specification of the analyser.
\* "The parties agree to keep all information strict
\*  ly confidential and shall not disclose it."
ProhibitionExample ==
    <<"T","h","e"," ","p","a","r","t","i","e","s"," ","a","g","r","e","e",
      " ","t","o"," ","k","e","e","p"," ","a","l","l"," ","i","n","f","o",
      "r","m","a","t","i","o","n"," ","s","t","r","i","c","t","l","y"," ",
      "c","o","n","f","i","d","e","n","t","i","a","l"," ","a","n","d"," ",
      "s","h","a","l","l"," ","n","o","t"," ","d","i","s","c","l","o","s",
      "e"," ","i","t",".">>

\* "This Agreement shall terminate upon any breach by either party."
ObligationExample ==
    <<"T","h","i","s"," ","A","g","r","e","e","m","e","n","t"," ","s","h",
      "a","l","l"," ","t","e","r","m","i","n","a","t","e"," ","u","p","o",
      "n"," ","a","n","y"," ","b","r","e","a","c","h"," ","b","y"," ","e",
      "i","t","h","e","r"," ","p","a","r","t","y",".">>

\* "Either party may terminate this agreement immediately.
\*  The breaching party shall pay a penalty of $10,000 and 
\*  indemnify the other party without limitation."
PenaltyExample ==
    <<"E","i","t","h","e","r"," ","p","a","r","t","y"," ","m","a","y"," ",
      "t","e","r","m","i","n","a","t","e"," ","t","h","i","s"," ","a","g",
      "r","e","e","m","e","n","t"," ","i","m","m","e","d","i","a","t","e",
      "l","y","."," ","T","h","e"," ","b","r","e","a","c","h","i","n","g",
      " ","p","a","r","t","y"," ","s","h","a","l","l"," ","p","a","y"," ",
      "a"," ","p","e","n","a","l","t","y"," ","o","f"," ","$","1","0",",",
      "0","0","0"," ","a","n","d"," ","i","n","d","e","m","n","i","f","y",
      " ","t","h","e"," ","o","t","h","e","r"," ","p","a","r","t","y"," ",
      "w","i","t","h","o","u","t"," ","l","i","m","i","t","a","t","i","o",
      "n",".">>

\* the longest blank document, in characters
MaxBlankTokens == 2

\* the whitespace characters the blank documents are made of
BlankTokens == << <<" ">>, <<"\n">>, <<"\t">> >>

\* A clause of exactly 50 characters, the length from which on
\* _calculate_confidence adds 0.05.
FiftyChars == [n \in 1..50 |-> "a"]

\* Every word of negation_words, uncertainty_words and time_words but
\* "no" and "without delay", and no phrase of the weighted risk groups:
\* "not never none neither nor without unless may might could po
\*  ssibly potentially uncertain immediately urgent asap promptly "
AdditionalWords ==
    <<"n","o","t"," ","n","e","v","e","r"," ","n","o","n","e"," ","n","e",
      "i","t","h","e","r"," ","n","o","r"," ","w","i","t","h","o","u","t",
      " ","u","n","l","e","s","s"," ","m","a","y"," ","m","i","g","h","t",
      " ","c","o","u","l","d"," ","p","o","s","s","i","b","l","y"," ","p",
      "o","t","e","n","t","i","a","l","l","y"," ","u","n","c","e","r","t",
      "a","i","n"," ","i","m","m","e","d","i","a","t","e","l","y"," ","u",
      "r","g","e","n","t"," ","a","s","a","p"," ","p","r","o","m","p","t",
      "l","y"," ">>

\* AdditionalWords made a clause of 201 characters, the length from which on
\* _calculate_additional_risk_factors adds 0.1
AdditionalExample == AdditionalWords \o [n \in 1..79 |-> "a"]

Documents ==
    DocumentsOf(Tokens, MaxTokens) \cup DocumentsOf(TypeTokens, MaxTypeTokens)
        \cup {FiftyChars, PenaltyExample}

RiskDocuments ==
    DocumentsOf(RiskTokens, MaxRiskTokens)
        \cup {PenaltyExample, AdditionalExample}

\* the texts the methods of the services are called on directly
UnitDocuments ==
    DocumentsOf(TypeTokens, MaxTypeTokens)
        \cup DocumentsOf(BlankTokens, MaxBlankTokens)
        \cup {ProhibitionExample, ObligationExample}

\* The values random.uniform(0.1, 0.9) is given, in thousandths: the ends of
\* the interval, and values on both sides of the two thresholds.
Draws == {100, 396, 400, 697, 900}

\* the most calls that run at once
NumCallers == 2

Callers == 1..NumCallers

\* The documents of the concurrent calls: "final . if not ",
\* "a)may be indemnify " and "never . if final ".
ConcDocuments ==
    { RiskTokens[4] \o RiskTokens[6] \o RiskTokens[3],
      Tokens[1] \o RiskTokens[1] \o RiskTokens[5],
      RiskTokens[2] \o RiskTokens[6] \o RiskTokens[4] }

\* the frame of a call that has not started: no text, and the locals of
\* _segment_text and _calculate_risks as they are initialised
IdleCall ==
    [pc          |-> "idle",
     text        |-> <<>>,
     sentences   |-> <<>>,
     i           |-> 1,
     st          |-> ScanInit,
     clauses     |-> <<>>,
     k           |-> 1,
     risk_scores |-> <<>>]

\* A record of the log: the message of the except branch that wrote it and
\* where the exception it caught was raised, the number of the clause being
\* assessed or 0 when it was raised outside the loop over the clauses.
LogRecord(message, at) == [message |-> message, at |-> at]

Init ==
    /\ pc = "idle"
    /\ text = <<>>
    /\ clauses = <<>>
    /\ risk_scores = <<>>
    /\ clause_type = ""
    /\ log = <<>>
    /\ segmentation_service = SegmentationService
    /\ risk_service = RiskService
    /\ calls = [c \in Callers |-> IdleCall]

\* ocr_result['text'] is the document t
Upload(t) ==
    /\ pc = "idle"
    /\ pc' = "uploaded"
    /\ text' = t
    /\ UNCHANGED <<clauses, risk_scores, clause_type, log, services, calls>>

\* clauses = await segmentation_service.segment_clauses(ocr_result['text']);
\* the except branch, which a blank text never enters, logs what it caught
SegmentClauses ==
    /\ pc = "uploaded"
    /\ \E fault \in BOOLEAN :
           /\ clauses' = segment_clauses(text, fault)
           /\ log' = IF fault /\ Strip(text) # <<>>
                     THEN Append(log, LogRecord("Error segmenting clauses", 0))
                     ELSE log
    /\ pc' = "segmented"
    /\ UNCHANGED <<text, risk_scores, clause_type, services, calls>>

\* risk_scores = await risk_service.calculate_risk_scores(clauses); when the
\* computation raises, in run_in_executor (at = 0) or while the clause
\* numbered at is assessed, the except branch logs what it caught and the
\* mock scores are returned
CalculateRiskScores ==
    /\ pc = "segmented"
    /\ \/ /\ risk_scores' = calculate_risks(clauses)
          /\ log' = log
       \/ \E at \in 0..Len(clauses) :
          \E draws \in [DOMAIN clauses -> Draws] :
              /\ risk_scores' = generate_mock_risk_scores(clauses, draws)
              /\ log' = Append(log, LogRecord("Error calculating risk scores", at))
    /\ pc' = "scored"
    /\ UNCHANGED <<text, clauses, clause_type, services, calls>>

\* a direct call of _classify_clause_type on the text
ClassifyClauseType ==
    /\ pc = "uploaded"
    /\ clause_type' = classify_clause_type(text)
    /\ pc' = "classified"
    /\ UNCHANGED <<text, clauses, risk_scores, log, services, calls>>

\* a direct call of _calculate_risks on one clause whose text is the text
CalculateRisks ==
    /\ pc = "uploaded"
    /\ risk_scores' = calculate_risks(<<[id |-> 1, text |-> text]>>)
    /\ pc' = "assessed"
    /\ UNCHANGED <<text, clauses, clause_type, log, services, calls>>

\* what the requests of upload_document hold
request == <<pc, text, clauses, risk_scores, clause_type, log>>

\* Locals with the locals kept on the service instance, where every call
\* reads those the first call left
Locals_OfService(c) == calls[1].st

\* clauses, current_clause, clause_id and start_index of the call c: locals
\* of its own frame
Locals(c) == calls[c].st

\* The call c of segment_clauses(t) starts: a blank text returns [] at
\* once, any other text is handed to _segment_text on an executor thread,
\* which splits it into sentences.
BeginSegment(c, t) ==
    /\ calls[c].pc = "idle"
    /\ calls' = [calls EXCEPT ![c] =
           IF Strip(t) = <<>>
           THEN [IdleCall EXCEPT !.pc = "assess", !.text = t]
           ELSE [IdleCall EXCEPT !.pc = "scan", !.text = t,
                                 !.sentences = split_into_sentences(t)]]
    /\ UNCHANGED <<request, services>>

\* one iteration of the loop over the sentences, in the call c
ScanSentence(c) ==
    /\ calls[c].pc = "scan"
    /\ calls[c].i <= Len(calls[c].sentences)
    /\ calls' = [calls EXCEPT
           ![c].st = ScanStep(calls[c].text, calls[c].sentences[calls[c].i],
                              Locals(c)),
           ![c].i = calls[c].i + 1]
    /\ UNCHANGED <<request, services>>

\* the loop of the call c is over: the last clause is added, the whole text
\* stands in when there is none, and _segment_text returns
EndSegment(c) ==
    /\ calls[c].pc = "scan"
    /\ calls[c].i > Len(calls[c].sentences)
    /\ LET found == Flush(Locals(c)).clauses
       IN  calls' = [calls EXCEPT ![c] =
               [IdleCall EXCEPT
                   !.pc = "assess",
                   !.text = calls[c].text,
                   !.clauses = IF found = <<>>
                               THEN <<WholeClause(calls[c].text, "general", 50)>>
                               ELSE found]]
    /\ UNCHANGED <<request, services>>

\* one iteration of the loop of _calculate_risks, in the call c
AssessNext(c) ==
    /\ calls[c].pc = "assess"
    /\ calls[c].k <= Len(calls[c].clauses)
    /\ calls' = [calls EXCEPT
           ![c].risk_scores = Append(calls[c].risk_scores,
                                     AssessClause(calls[c].clauses[calls[c].k])),
           ![c].k = calls[c].k + 1]
    /\ UNCHANGED <<request, services>>

\* the loop of _calculate_risks of the call c is over: it returns
EndRisks(c) ==
    /\ calls[c].pc = "assess"
    /\ calls[c].k > Len(calls[c].clauses)
    /\ calls' = [calls EXCEPT ![c].pc = "done"]
    /\ UNCHANGED <<request, services>>

\* the segmentation service on its own
NextSeg ==
    \/ \E t \in Documents : Upload(t)
    \/ SegmentClauses

SpecSeg == Init /\ [][NextSeg]_vars

\* upload_document on the documents of the risk runs
NextRisk ==
    \/ \E t \in RiskDocuments : Upload(t)
    \/ SegmentClauses
    \/ CalculateRiskScores

SpecRisk == Init /\ [][NextRisk]_vars

\* the methods of the two services, each called on its own
NextUnit ==
    \/ \E t \in UnitDocuments : Upload(t)
    \/ SegmentClauses
    \/ ClassifyClauseType
    \/ CalculateRisks

SpecUnit == Init /\ [][NextUnit]_vars

\* analyses running at once on the shared instances, their executor threads
\* interleaved at the iterations of the loops
NextConc ==
    \E c \in Callers :
        \/ \E t \in ConcDocuments : BeginSegment(c, t)
        \/ ScanSentence(c)
        \/ EndSegment(c)
        \/ AssessNext(c)
        \/ EndRisks(c)

SpecConc == Init /\ [][NextConc]_vars

---------------------------------------------------------------------------
(* Properties of the clauses segment_clauses returns.                      *)

\* clauses holds what segment_clauses returned for text
Segmented == pc \in {"segmented", "scored"}

\* Segmented, and the sentence scan was not replaced by the failure clause
ScanResult == Segmented /\ clauses # <<WholeClause(text, "unknown", 10)>>

\* C1 as stated: every text other than the empty string yields at least
\* one clause.
C1_NonEmptyText == Segmented /\ text # <<>> => Len(clauses) >= 1

\* C1, amended: every text that is neither empty nor made of whitespace
\* only yields at least one clause.
C1_NonBlankText == Segmented /\ Strip(text) # <<>> => Len(clauses) >= 1

\* a text of terminators only: no sentence, and the whole input is the clause
C1_Witness ==
    /\ ScanResult
    /\ Strip(text) # <<>>
    /\ split_into_sentences(text) = <<>>
    /\ Len(clauses) = 1

\* C2: the clauses are in non-decreasing start_index order.
C2_StartOrder ==
    Segmented =>
        \A i \in 1..(Len(clauses) - 1) :
            clauses[i].start_index <= clauses[i + 1].start_index

IsNotWhitespace(c) == c \notin Whitespace

\* s without its whitespace characters
NonWhitespace(s) == SelectSeq(s, IsNotWhitespace)

\* the texts of cs[k..], concatenated
RECURSIVE ConcatTexts(_, _)
ConcatTexts(cs, k) ==
    IF k > Len(cs) THEN <<>> ELSE cs[k].text \o ConcatTexts(cs, k + 1)

\* C3: the clause texts, concatenated in order, are the document up to
\* whitespace: no character other than whitespace is lost, added or
\* reordered (the two are compared on their non-whitespace characters, which
\* every way of collapsing whitespace preserves).
C3_Reconstructs ==
    Segmented =>
        NonWhitespace(ConcatTexts(clauses, 1)) = NonWhitespace(text)

\* C4: start_index and end_index are offsets into the document,
\* 0 <= start_index <= end_index <= len(text).
C4_Offsets ==
    Segmented =>
        \A i \in DOMAIN clauses :
            /\ 0 <= clauses[i].start_index
            /\ clauses[i].start_index <= clauses[i].end_index
            /\ clauses[i].end_index <= Len(text)

\* C5: every clause text, those of the whole-input clauses included, is
\* non-empty and has no leading or trailing whitespace.
C5_Trimmed ==
    Segmented =>
        \A i \in DOMAIN clauses :
            clauses[i].text # <<>> /\ Strip(clauses[i].text) = clauses[i].text

\* C6: the ids of the returned clauses are 1, 2, ..., n in sequence order.
C6_Ids == Segmented => \A i \in DOMAIN clauses : clauses[i].id = i

\* three clauses out of the sentence scan
C6_Witness == ScanResult /\ Len(clauses) >= 3

\* the nine clause types of the data model
ClauseTypes ==
    {"definition", "obligation", "prohibition", "condition", "termination",
     "liability", "payment", "confidentiality", "general"}

\* C7 as stated: on every path, the failure path included, the type of a
\* returned clause is one of the nine clause types.
C7_TypeInNine ==
    Segmented => \A i \in DOMAIN clauses : clauses[i].type \in ClauseTypes

\* C7, amended: the type of a returned clause is one of the nine clause
\* types, except on the failure path, whose single whole-input clause has
\* type unknown.
C7_TypeInNineOrFailure ==
    Segmented =>
        \/ \A i \in DOMAIN clauses : clauses[i].type \in ClauseTypes
        \/ clauses = <<WholeClause(text, "unknown", 10)>>

\* every type group names a clause, and so does the default
C7_Witness ==
    /\ ScanResult
    /\ Len(clauses) = 1
    /\ clauses[1].type = "confidentiality"

---------------------------------------------------------------------------
(* Properties of the assessments calculate_risk_scores returns.            *)

\* risk_scores holds what calculate_risk_scores returned for clauses
Scored == pc = "scored"

\* C8: every returned risk_score lies in [0,1], on the normal path and on
\* the fallback path.
C8_ScoreRange ==
    Scored =>
        \A i \in DOMAIN risk_scores :
            /\ risk_scores[i].risk_score.den > 0
            /\ 0 <= risk_scores[i].risk_score.num
            /\ risk_scores[i].risk_score.num <= risk_scores[i].risk_score.den

\* a clause with a weighted match whose quotient exceeds 1 and is cut to 1
C8_Witness ==
    /\ Scored
    /\ \E i \in DOMAIN risk_scores :
           /\ risk_scores[i] = AssessClause(clauses[i])
           /\ risk_scores[i].risk_score = Frac(1, 1)

\* the level the claim gives a score: the thresholds 0.7 and 0.4 belong to
\* the upper bucket
ClaimedLevel(score) ==
    IF score.num * 10 >= 7 * score.den THEN "high"
    ELSE IF score.num * 10 >= 4 * score.den THEN "medium"
    ELSE "low"

\* C9: in every returned assessment, normal or fallback, risk_level is the
\* level of the returned risk_score: high from 0.7, medium from 0.4 to below
\* 0.7, low below 0.4.
C9_LevelOfScore ==
    Scored =>
        \A i \in DOMAIN risk_scores :
            risk_scores[i].risk_level = ClaimedLevel(risk_scores[i].risk_score)

\* the ten factor names
FactorNames ==
    {"Unlimited Liability", "Automatic Termination", "Penalty Clauses",
     "Indemnification", "Waiver of Rights", "Consequential Damages",
     "Irrevocable Terms", "Exclusive Remedy", "Confidentiality Breach",
     "Payment Default"}

\* C10: in every returned assessment, every element of risk_factors is one
\* of the ten factor names.
C10_FactorVocabulary ==
    Scored =>
        \A i \in DOMAIN risk_scores :
            \A k \in DOMAIN risk_scores[i].risk_factors :
                risk_scores[i].risk_factors[k] \in FactorNames

\* C11: calculate_risk_scores returns one assessment per clause, in the
\* order of the clauses, and the i-th assessment carries the id of the i-th
\* clause, on the normal path and on the fallback path.
C11_OnePerClause ==
    Scored =>
        /\ Len(risk_scores) = Len(clauses)
        /\ \A i \in DOMAIN clauses : risk_scores[i].clause_id = clauses[i].id

\* two clauses or more, assessed by the fallback
C11_Witness ==
    /\ Scored
    /\ Len(clauses) >= 2
    /\ risk_scores # calculate_risks(clauses)

---------------------------------------------------------------------------
(* Properties of the classifier.                                           *)

\* the priority order of the type groups the claims give
ClaimedOrder ==
    <<"definition", "obligation", "prohibition", "condition", "termination",
      "liability", "payment", "confidentiality">>

\* some pattern of the group called name is found in the lowered text s
GroupMatches(name, s) ==
    \E k \in DOMAIN type_patterns :
        /\ type_patterns[k].type = name
        /\ \E j \in DOMAIN type_patterns[k].patterns :
               Search(type_patterns[k].patterns[j], Lower(s))

\* the first group of ClaimedOrder that matches s, general when none does
ClaimedType(s) ==
    LET hits == {n \in DOMAIN ClaimedOrder : GroupMatches(ClaimedOrder[n], s)}
    IN  IF hits = {} THEN "general" ELSE ClaimedOrder[Least(hits)]

\* C12: the type of a clause is the first group, in the order definition,
\* obligation, prohibition, condition, termination, liability, payment,
\* confidentiality, with a pattern matching the clause text, and general
\* when no group matches.
C12_FirstGroupWins ==
    ScanResult =>
        \A i \in DOMAIN clauses : clauses[i].type = ClaimedType(clauses[i].text)

\* a clause two groups match, typed by the earlier one
C12_Witness ==
    /\ ScanResult
    /\ Len(clauses) = 1
    /\ GroupMatches("condition", clauses[1].text)
    /\ GroupMatches("payment", clauses[1].text)
    /\ clauses[1].type = "condition"

\* _classify_clause_type has returned its answer for text
Classified == pc = "classified"

\* C13: classifying "The parties agree to keep all information strictly
\* confidential and shall not disclose it." returns prohibition.
C13_ShallNotIsProhibition ==
    Classified /\ text = ProhibitionExample => clause_type = "prohibition"

\* C14: classifying "This Agreement shall terminate upon any breach by
\* either party." returns obligation: an obligation pattern and a
\* termination pattern match, no definition pattern does, and obligation
\* wins.
C14_ShallTerminateIsObligation ==
    Classified /\ text = ObligationExample => clause_type = "obligation"

\* the example has been classified, and the groups match it as the claim says
C14_Witness ==
    /\ Classified
    /\ text = ObligationExample
    /\ GroupMatches("obligation", text)
    /\ GroupMatches("termination", text)
    /\ ~GroupMatches("definition", text)

---------------------------------------------------------------------------
(* Properties of an analysis: segment_clauses, then calculate_risk_scores. *)

\* C15: analysing "Either party may terminate this agreement immediately.
\* The breaching party shall pay a penalty of $10,000 and indemnify the
\* other party without limitation." yields a second clause, whose
\* assessment has risk_level high and, among its risk_factors, Penalty
\* Clauses and Indemnification (stated of the analysis in which neither
\* service logged a failure).
C15_SecondClauseHigh ==
    Scored /\ text = PenaltyExample /\ log = <<>> =>
        /\ Len(clauses) >= 2
        /\ Len(risk_scores) >= 2
        /\ risk_scores[2].risk_level = "high"
        /\ {"Penalty Clauses", "Indemnification"}
               \subseteq Range(risk_scores[2].risk_factors)

\* _calculate_risks has returned its answer for the one clause made of text
Assessed == pc = "assessed"

\* C17: for the empty string and for every whitespace-only text,
\* segment_clauses returns the empty sequence, and scoring a clause with such
\* a text returns risk_score 0.0 and risk_level low.
C17_BlankText ==
    Strip(text) = <<>> =>
        /\ Segmented => clauses = <<>>
        /\ Assessed =>
               /\ Len(risk_scores) = 1
               /\ risk_scores[1].risk_score.num = 0
               /\ risk_scores[1].risk_score.den > 0
               /\ risk_scores[1].risk_level = "low"

\* a clause of two whitespace characters has been scored
C17_Witness == Assessed /\ Len(text) = 2 /\ Strip(text) = <<>>

---------------------------------------------------------------------------
(* Properties of the failure paths.                                        *)

\* the except branch of segment_clauses was taken
SegmentationFailed ==
    \E k \in DOMAIN log : log[k].message = "Error segmenting clauses"

\* C18: when the segmentation step fails, segment_clauses returns to its
\* caller, and what it returns is exactly one clause: id 1, the whole input
\* as text, start_index 0, end_index len(text), type unknown and
\* confidence 0.1.
C18_DegradedClause ==
    SegmentationFailed =>
        /\ Segmented
        /\ clauses = <<[id          |-> 1,
                        text        |-> text,
                        type        |-> "unknown",
                        start_index |-> 0,
                        end_index   |-> Len(text),
                        confidence  |-> 10]>>

\* the segmentation of a text of several clauses failed
C18_Witness ==
    /\ Segmented
    /\ SegmentationFailed
    /\ Len(segment_text(text)) >= 2

\* an assessment without the id of its clause
Findings(assessment) ==
    [risk_score   |-> assessment.risk_score,
     risk_level   |-> assessment.risk_level,
     color        |-> assessment.color,
     risk_factors |-> assessment.risk_factors,
     explanation  |-> assessment.explanation]

\* C19: the assessment of a clause depends only on the text of the clause
\* (two clauses of a document with the same text are assessed alike), and a
\* fault while one clause is assessed leaves the assessments of the other
\* clauses of the document what they are without the fault.
C19_FaultIsLocal ==
    Scored =>
        /\ \A k \in DOMAIN log :
               log[k].message = "Error calculating risk scores" /\ log[k].at > 0
                   => \A i \in DOMAIN clauses \ {log[k].at} :
                          risk_scores[i] = AssessClause(clauses[i])
        /\ \A i, j \in DOMAIN clauses :
               clauses[i].text = clauses[j].text
                   => Findings(risk_scores[i]) = Findings(risk_scores[j])

---------------------------------------------------------------------------
(* Properties of concurrent analyses.                                      *)

\* the call c returns from segment_clauses in this step
SegmentReturns(c) == calls[c].pc \in {"idle", "scan"} /\ calls'[c].pc = "assess"

\* the call c returns from calculate_risk_scores in this step
RisksReturn(c) == calls[c].pc = "assess" /\ calls'[c].pc = "done"

\* C20: under every interleaving of the calls that share the two service
\* instances, each call returns what it returns when run alone, the clauses
\* of its text and then their assessments, and no step modifies the pattern
\* tables of the instances.
C20_NoInterference ==
    [][/\ UNCHANGED services
       /\ \A c \in Callers :
              /\ SegmentReturns(c) =>
                     calls'[c].clauses = segment_clauses(calls'[c].text, FALSE)
              /\ RisksReturn(c) =>
                     /\ calls'[c].clauses = calls[c].clauses
                     /\ calls'[c].risk_scores = calculate_risks(calls[c].clauses)
      ]_vars

\* a call has returned the assessments of several clauses while another
\* call, on another text, is in the middle of its sentences
C20_Witness ==
    \E c, d \in Callers :
        /\ calls[c].pc = "done"
        /\ Len(calls[c].risk_scores) >= 2
        /\ calls[d].pc = "scan"
        /\ calls[d].i > 1
        /\ calls[d].text # calls[c].text

\* ---- the score of one clause ----

\* the two fractions are the same number
SameNumber(a, b) == a.num * b.den = b.num * a.den

\* the weighted groups matched in the clause text, by position in
\* risk_patterns
MatchedGroups(clause_text) ==
    {k \in DOMAIN risk_patterns :
        \E n \in DOMAIN risk_patterns[k].patterns :
            Search(risk_patterns[k].patterns[n], Lower(clause_text))}

\* a normal run has assessed the clauses
ScoredNormally == Scored /\ log = <<>>

\* the score the claim gives a clause with a weighted match: the weighted
\* sum divided by the weight of the matched groups, and then the additional
\* adjustments, cut to 1
ClaimedScore(clause_text) ==
    LET words == Max(1, WordCount(clause_text))
        acc == RiskLoop(1, Lower(clause_text), words,
                        [total_score |-> 0, total_weight |-> 0])
        additional == calculate_additional_risk_factors(clause_text)
    IN  MinOne(Frac(acc.total_score * 10
                        + additional * words * acc.total_weight,
                    100 * words * acc.total_weight))

\* C21: for every clause text with a weighted match, the risk score is the
\* pattern component (the weighted sum divided by the total weight of the
\* matched groups) plus the additional adjustments, cut to [0,1]: the
\* adjustments are added after the division and are not divided themselves.
C21_AdditionAfterDivision ==
    ScoredNormally =>
        \A i \in DOMAIN clauses :
            MatchedGroups(clauses[i].text) # {} =>
                SameNumber(risk_scores[i].risk_score,
                           ClaimedScore(clauses[i].text))

\* C22: for every clause text that is not blank and in which no pattern of
\* the high, medium or low group matches, the risk score is the additional
\* adjustments alone, and lies in [0,1].
C22_AdditionalAlone ==
    ScoredNormally =>
        \A i \in DOMAIN clauses :
            Strip(clauses[i].text) # <<>> /\ MatchedGroups(clauses[i].text) = {}
            => /\ SameNumber(
                      risk_scores[i].risk_score,
                      Frac(calculate_additional_risk_factors(clauses[i].text),
                           100))
               /\ 0 <= risk_scores[i].risk_score.num
               /\ risk_scores[i].risk_score.num <= risk_scores[i].risk_score.den

\* a clause without a weighted match is scored above 0
C22_Witness ==
    /\ ScoredNormally
    /\ \E i \in DOMAIN clauses :
           /\ MatchedGroups(clauses[i].text) = {}
           /\ risk_scores[i].risk_score.num > 0

\* the places of s where the word w stands as a whole word
WordOccurrences(s, w) ==
    {i \in 1..Len(s) :
        /\ HasAt(s, i, w)
        /\ (i = 1 \/ s[i - 1] \notin WordChars)
        /\ (i + Len(w) > Len(s) \/ s[i + Len(w)] \notin WordChars)}

\* the number of occurrences in the clause of the words of the list
OccurrenceCount(words, clause_lower) ==
    Cardinality({<<k, i>> \in (DOMAIN words) \X (1..Len(clause_lower)) :
                    i \in WordOccurrences(clause_lower, words[k])})

\* the negation adjustment of the claim, in hundredths
ClaimedNegation(clause_text) ==
    Min(20, 5 * OccurrenceCount(negation_words, Lower(clause_text)))

\* the negation adjustment is the only term of the score
NegationOnly(clause_text) ==
    /\ Strip(clause_text) # <<>>
    /\ MatchedGroups(clause_text) = {}
    /\ Len(clause_text) <= 100
    /\ CountPresent(uncertainty_words, Lower(clause_text)) = 0
    /\ CountPresent(time_words, Lower(clause_text)) = 0

\* C23: the negation adjustment of a clause is min(0.2, 0.05 * k), k the
\* number of occurrences in the clause of the eight negation keywords: a
\* single "not" gives 0.05 and a keyword repeated three times 0.15. Seen in
\* the score of the clauses whose only adjustment is the negation one.
C23_NegationPerOccurrence ==
    ScoredNormally =>
        \A i \in DOMAIN clauses :
            NegationOnly(clauses[i].text) =>
                SameNumber(risk_scores[i].risk_score,
                           Frac(ClaimedNegation(clauses[i].text), 100))

\* ---- the confidence of a clause ----

\* a fault-free run has segmented a text that has a sentence: the clauses
\* are those of the sentence scan
FromScan ==
    /\ Segmented
    /\ ~SegmentationFailed
    /\ split_into_sentences(text) # <<>>

\* the confidence the claim gives a clause text, in hundredths
ClaimedConfidence(clause_text) ==
    LET present == {k \in DOMAIN legal_keywords :
                       Contains(Lower(clause_text), legal_keywords[k])}
        keywords == Min(30, 5 * Cardinality(present))
        length == IF Len(clause_text) > 100 THEN 10
                  ELSE IF Len(clause_text) > 50 THEN 5 ELSE 0
        ending == IF clause_text # <<>> /\ clause_text[Len(clause_text)] \in {".", "!", "?"}
                  THEN 10 ELSE 0
    IN  Min(100, 50 + keywords + length + ending)

\* C24: the confidence of every clause produced by segmentation is the
\* stated function of the clause's text field (0.5, 0.05 per distinct legal
\* keyword up to 0.3, 0.1 above 100 characters or 0.05 above 50, 0.1 for a
\* closing '.', '!' or '?', cut to 1), and lies in [0,1]. Stated of the
\* clauses of the sentence scan.
C24_ConfidenceOfText ==
    FromScan =>
        \A i \in DOMAIN clauses :
            /\ clauses[i].confidence = ClaimedConfidence(clauses[i].text)
            /\ 0 <= clauses[i].confidence
            /\ clauses[i].confidence <= 100

\* C29: every clause of the sentence scan has a confidence in [0.5, 0.9]:
\* no such clause ends with '.', '!' or '?', so the bonus for closing
\* punctuation is never given and the confidence 1.0 is not reached.
C29_NoEndBonus ==
    FromScan =>
        \A i \in DOMAIN clauses :
            /\ 50 <= clauses[i].confidence
            /\ clauses[i].confidence <= 90
            /\ clauses[i].text # <<>>
            /\ clauses[i].text[Len(clauses[i].text)] \notin {".", "!", "?"}

\* a clause of a text closed by a terminator reaches the confidence 0.9
C29_Witness ==
    /\ FromScan
    /\ text[Len(text)] \in {".", "!", "?"}
    /\ \E i \in DOMAIN clauses : clauses[i].confidence = 90

\* ---- the sentence scan ----

\* the sentences that open a clause: the first one, and every later one
\* that matches a boundary pattern
Openers(sentences) ==
    {1} \cup {i \in 2..Len(sentences) : is_clause_start(sentences[i])}

\* the sentences of the k-th clause: from the k-th opener up to the next
GroupOf(sentences, k) ==
    {i \in DOMAIN sentences :
        Cardinality({j \in Openers(sentences) : j <= i}) = k}

\* sentences[i..hi], each after a single space
RECURSIVE Appended(_, _, _)
Appended(sentences, i, hi) ==
    IF i > hi THEN <<>>
    ELSE <<" ">> \o sentences[i] \o Appended(sentences, i + 1, hi)

\* the buffer of the k-th clause when it is flushed: a sentence that
\* matches a boundary pattern starts the buffer, every other sentence is
\* appended after a single space
BufferOf(sentences, k) ==
    LET lo == Least(GroupOf(sentences, k))
        hi == Greatest(GroupOf(sentences, k))
    IN  IF is_clause_start(sentences[lo])
        THEN sentences[lo] \o Appended(sentences, lo + 1, hi)
        ELSE Appended(sentences, lo, hi)

\* the same buffer when only a sentence that finds the buffer non-empty
\* starts a new one: the first sentence is appended to the empty buffer
ClaimedBufferOf(sentences, k) ==
    LET lo == Least(GroupOf(sentences, k))
        hi == Greatest(GroupOf(sentences, k))
    IN  IF lo > 1
        THEN sentences[lo] \o Appended(sentences, lo + 1, hi)
        ELSE Appended(sentences, 1, hi)

\* C25 as stated: a sentence that matches a boundary pattern while the
\* buffer is non-empty flushes the buffer as one clause and starts a new
\* buffer; every other sentence is appended to the buffer after a single
\* space; the last buffer is flushed as the last clause; so there is one
\* clause more than boundary sentences after the first. The buffer of a
\* clause is seen in its text and in end_index - start_index.
C25_ScanAsStated ==
    FromScan =>
        LET sentences == split_into_sentences(text)
        IN  /\ Len(clauses) = 1 + Cardinality(Openers(sentences) \ {1})
            /\ \A k \in DOMAIN clauses :
                   /\ clauses[k].text = Strip(ClaimedBufferOf(sentences, k))
                   /\ clauses[k].end_index - clauses[k].start_index
                          = Len(ClaimedBufferOf(sentences, k))

\* C25, amended: a sentence that matches a boundary pattern flushes the
\* buffer, if it is non-empty, as one clause and starts a new buffer, also
\* when it finds the buffer empty; every other sentence is appended after a
\* single space; the last buffer is flushed as the last clause; there is
\* one clause more than boundary sentences after the first.
C25_Scan ==
    FromScan =>
        LET sentences == split_into_sentences(text)
        IN  /\ Len(clauses) = 1 + Cardinality(Openers(sentences) \ {1})
            /\ \A k \in DOMAIN clauses :
                   /\ clauses[k].text = Strip(BufferOf(sentences, k))
                   /\ clauses[k].end_index - clauses[k].start_index
                          = Len(BufferOf(sentences, k))

\* the first sentence matches a boundary pattern, a later one flushes the
\* buffer, and some clause is made of several sentences
C25_Witness ==
    /\ FromScan
    /\ is_clause_start(split_into_sentences(text)[1])
    /\ Len(clauses) >= 2
    /\ Len(split_into_sentences(text)) > Len(clauses)

\* C26: for every clause of the sentence scan, start_index is the offset of
\* the first occurrence of the clause's text in the document, and
\* end_index - start_index is the length of the clause's text.
C26_SpanOfText ==
    FromScan =>
        \A i \in DOMAIN clauses :
            /\ clauses[i].start_index = Find(text, clauses[i].text)
            /\ clauses[i].end_index - clauses[i].start_index
                   = Len(clauses[i].text)

\* ---- the whole-input fallback ----

\* what the sentence scan leaves in `clauses' at line 109
ScanOutput(t) == Flush(Scan(t, split_into_sentences(t), 1, ScanInit)).clauses

\* a fault-free run has segmented a text that passes the blank check
PassedCheck == Segmented /\ ~SegmentationFailed /\ Strip(text) # <<>>

\* the text has a character that is neither whitespace nor '.', '!', '?'
HasContent(t) == \E i \in DOMAIN t : t[i] \notin Whitespace \cup {".", "!", "?"}

\* C27 as stated: for every input that passes the blank check, the sentence
\* scan of a fault-free run yields at least one clause, so the clauses
\* returned are those of the scan and the whole-input fallback clause is
\* never produced.
C27_NoFallbackEver ==
    PassedCheck =>
        /\ ScanOutput(text) # <<>>
        /\ clauses = ScanOutput(text)

\* C27, amended: the same of every input that has a character other than
\* whitespace and '.', '!', '?'.
C27_NoFallback ==
    PassedCheck /\ HasContent(text) =>
        /\ ScanOutput(text) # <<>>
        /\ clauses = ScanOutput(text)

\* a text with terminators and blanks around its content, whose scan
\* returns clauses that are not the whole-input clause
C27_Witness ==
    /\ PassedCheck
    /\ HasContent(text)
    /\ \E i \in DOMAIN text : text[i] \in {".", "!", "?"}
    /\ clauses # <<>>
    /\ clauses # <<WholeClause(text, "general", 50)>>

\* ---- the fallback of the risk computation ----

\* the risk computation raised, and calculate_risk_scores has returned
RiskFailed ==
    /\ Scored
    /\ \E k \in DOMAIN log : log[k].message = "Error calculating risk scores"

\* the one list of factors of each bucket
ClaimedCanned ==
    [high   |-> <<"Unlimited Liability", "Automatic Termination">>,
     medium |-> <<"Payment Default", "Confidentiality Breach">>,
     low    |-> <<"Standard Terms">>]

\* C28: when the risk computation raises, calculate_risk_scores still
\* returns: for every clause a fallback assessment whose risk_score lies in
\* [0.1, 0.9] and whose risk_factors are the one canned list of the bucket
\* (high, medium or low) it was put in.
C28_FallbackAssessments ==
    RiskFailed =>
        /\ Len(risk_scores) = Len(clauses)
        /\ \A i \in DOMAIN risk_scores :
               /\ 10 * risk_scores[i].risk_score.den
                      <= 100 * risk_scores[i].risk_score.num
               /\ 100 * risk_scores[i].risk_score.num
                      <= 90 * risk_scores[i].risk_score.den
               /\ risk_scores[i].risk_level \in DOMAIN ClaimedCanned
               /\ risk_scores[i].risk_factors
                      = ClaimedCanned[risk_scores[i].risk_level]

\* the fallback has put two clauses of a document in different buckets, one
\* of them with a factor in its text
C28_Witness ==
    /\ RiskFailed
    /\ \E i, j \in DOMAIN risk_scores :
           /\ risk_scores[i].risk_level = "high"
           /\ risk_scores[j].risk_level = "low"
           /\ identify_risk_factors(clauses[j].text) # <<>>

\* C30: on the normal path, a clause in which no pattern of the three
\* weighted groups matches is never rated high: its score is at most
\* 0.1 + 0.2 + 0.15 + 0.1 = 0.55 and its level is low or medium.
C30_NeverHighWithoutMatch ==
    ScoredNormally =>
        \A i \in DOMAIN clauses :
            MatchedGroups(clauses[i].text) = {} =>
                /\ 100 * risk_scores[i].risk_score.num
                       <= 55 * risk_scores[i].risk_score.den
                /\ risk_scores[i].risk_level \in {"low", "medium"}

\* a clause without a weighted match reaches the score 0.55, rated medium
C30_Witness ==
    /\ ScoredNormally
    /\ \E i \in DOMAIN clauses :
           /\ MatchedGroups(clauses[i].text) = {}
           /\ SameNumber(risk_scores[i].risk_score, Frac(55, 100))
           /\ risk_scores[i].risk_level = "medium"

===========================================================================
